---- MODULE Spec2Model ----
(***************************************************************************)
(* Noir-chroma: the retrieval-augmented memory engine (rag_memory.py), the *)
(* conversation orchestrator (langchain_chat.py), its client wrapper       *)
(* (deepseek_client.py) and the two callers of process_user_input in the   *)
(* GUI shell (main.py: the event loop and the voice loop thread).          *)
(***************************************************************************)
EXTENDS Integers, Sequences, FiniteSets, TLC

\* ------------------------------------------------------------------ bounds
MaxTurns == 2      \* turns issued in one behaviour of the session
MaxConcTurns == 2  \* turns issued in one behaviour with two callers
MaxAdds == 2       \* direct add_message calls in one behaviour of the engine
MaxTopK == 3       \* largest top_k a direct query is called with
MaxWindowTurns == 11  \* turns issued in one behaviour of a long session
MaxToggles == 10    \* //voice commands handled in one behaviour

\* ------------------------------------------------------- program constants
ChatWindow == 20   \* main.py: chat_messages keeps the last 20 messages
ContextTopK == 3   \* langchain_chat.py: query(user_input, top_k=3)
Threshold == 1000  \* rag_memory.py: distance < 1.0, in thousandths

\* ------------------------------------------------------------ input domains
Threads == {"main", "voice"}
UserTexts == {"hi", "name"}
Responses == {"noir", "glub"}
Errors == {"timeout"}
Texts == UserTexts \cup Responses
None == "None"
Roles == {"user", "ai"}
RoleArgs == Roles \cup {None}
RoleStrings == Roles \cup {"system"}  \* add_message takes any str as role

VARIABLES
    store,          \* the chat_memory collection, in insertion order
    nextId,         \* stands for uuid4(): the next fresh document id
    history,        \* LangChainChat.history
    chat_messages,  \* VTuberChatApp.chat_messages
    pc,             \* position of each thread in process_user_input
    text_in,        \* process_user_input's argument, per thread
    user_input,     \* stream_response's argument, per thread
    context,        \* stream_response's local context, per thread
    sent,           \* the messages list handed to llm.invoke, per thread
    response,       \* response.content, per thread
    out,            \* fragments the turn's generator has yielded, per thread
    turn,           \* issue number of each thread's current turn
    issued,         \* number of turns issued so far
    log,            \* per issued turn: what happened in it
    ret,            \* the last direct engine call and what it returned
    collection_live, \* self.collection names a collection that exists
    clear_pc,       \* position of a caller inside RAGMemory.clear
    conversation_history,  \* VTuberChatApp.conversation_history
    voice_input_enabled,  \* VTuberChatApp.voice_input_enabled
    is_listening,   \* VTuberChatApp.is_listening
    stop_listening, \* VTuberChatApp.stop_listening
    voice_threads,  \* position of each voice_loop thread started so far
    toggles         \* number of //voice commands handled so far

vars == <<store, nextId, history, chat_messages, pc, text_in, user_input,
          context, sent, response, out, turn, issued, log, ret,
          collection_live, clear_pc, conversation_history,
          voice_input_enabled, is_listening, stop_listening, voice_threads,
          toggles>>

voiceVars == <<voice_input_enabled, is_listening, stop_listening,
               voice_threads, toggles>>

orchVars == <<history, chat_messages, pc, text_in, user_input, context, sent,
              response, out, turn, issued, log, conversation_history,
              voiceVars>>

\* ------------------------------------------------------------- the embedder
\* SentenceTransformer.encode, a deterministic map from text to a unit vector:
\* here a direction in the plane, in steps of 30 degrees.
Embed(text) ==
    CASE text = "hi"   -> 0
      [] text = "name" -> 2
      [] text = "noir" -> 3
      [] text = "glub" -> 6
      [] OTHER         -> 9

\* cos of k * 30 degrees, in thousandths, k in 0..6
CosMilli == <<1000, 866, 500, 0, -500, -866, -1000>>

AngleBetween(a, b) ==
    LET d == IF a >= b THEN a - b ELSE b - a
    IN  IF d > 6 THEN 12 - d ELSE d

\* the collection's metric, "hnsw:space": "cosine": 1 - cos, in thousandths
CosineDistance(a, b) == 1000 - CosMilli[AngleBetween(a, b) + 1]

\* ------------------------------------------------- the collection (chromadb)
Min(a, b) == IF a <= b THEN a ELSE b

\* a MemoryRecord as collection.add stores it; turn is the issue number of the
\* turn that wrote it (0 for a direct call of the engine)
Record(id, message, role, k) ==
    [id |-> id, text |-> message, role |-> role, embedding |-> Embed(message),
     turn |-> k]

\* collection.add(documents, embeddings, metadatas, ids)
CollectionAdd(coll, id, message, role, k) ==
    Append(coll, Record(id, message, role, k))

\* collection.count()
CollectionCount(coll) == Len(coll)

\* the where clause ignored
MatchingAny(coll, where) == 1..Len(coll)

\* where={"role": role}, or no where clause
Matching(coll, where) ==
    {i \in 1..Len(coll) : where = None \/ coll[i].role = where}

\* the n nearest of cands, nearest first; records at equal distance come in
\* an order the index does not fix, so every such order is a possible answer
RECURSIVE KNearest(_, _, _, _)
KNearest(coll, emb, cands, n) ==
    IF n <= 0 \/ cands = {}
    THEN {<< >>}
    ELSE LET D(i) == CosineDistance(coll[i].embedding, emb)
             best == {i \in cands : \A j \in cands : D(i) <= D(j)}
         IN  UNION {{<<i>> \o r : r \in KNearest(coll, emb, cands \ {i}, n - 1)}
                    : i \in best}

\* collection.query(query_embeddings, n_results, where, include): the possible
\* answers, each a sequence of [document, distance]; n_results <= 0 is refused
CollectionQueryRaises(n_results) == n_results <= 0

CollectionQuery(coll, emb, n_results, where) ==
    {[j \in 1..Len(hits) |->
        [document |-> coll[hits[j]].text,
         distance |-> CosineDistance(coll[hits[j]].embedding, emb)]]
     : hits \in KNearest(coll, emb, Matching(coll, where), n_results)}

\* ------------------------------------------------ RAGMemory (rag_memory.py)
\* an add that overwrites the record holding the same text, when there is one
AddMessageUpsert(coll, id, message, role, k, fails) ==
    IF fails
    THEN coll
    ELSE IF \E i \in 1..Len(coll) : coll[i].text = message
         THEN [i \in 1..Len(coll) |->
                 IF coll[i].text = message THEN Record(id, message, role, k)
                                           ELSE coll[i]]
         ELSE CollectionAdd(coll, id, message, role, k)

\* add_message: the body of the try block; fails stands for encode or
\* collection.add raising, which the except clause swallows
AddMessage(coll, id, message, role, k, fails) ==
    IF fails THEN coll ELSE CollectionAdd(coll, id, message, role, k)

\* n_results with no clamp
NResultsUnclamped(coll, top_k) == top_k

\* n_results short by one
NResultsShort(coll, top_k) == Min(top_k, CollectionCount(coll) - 1)

\* query: n_results=min(top_k, self.collection.count())
NResults(coll, top_k) == Min(top_k, CollectionCount(coll))

\* the loop putting each kept document in front of the earlier ones
RECURSIVE FilterDocsReversed(_)
FilterDocsReversed(results) ==
    IF results = << >>
    THEN << >>
    ELSE IF Head(results).distance < Threshold
         THEN FilterDocsReversed(Tail(results)) \o <<Head(results).document>>
         ELSE FilterDocsReversed(Tail(results))

\* the loop with its distance test dropped
RECURSIVE KeepAllDocs(_)
KeepAllDocs(results) ==
    IF results = << >>
    THEN << >>
    ELSE <<Head(results).document>> \o KeepAllDocs(Tail(results))

\* query: the loop that keeps the documents with distance < 1.0
RECURSIVE FilterDocs(_)
FilterDocs(results) ==
    IF results = << >>
    THEN << >>
    ELSE IF Head(results).distance < Threshold
         THEN <<Head(results).document>> \o FilterDocs(Tail(results))
         ELSE FilterDocs(Tail(results))

\* query: the body of the try block; its outcomes, raised or returned
QueryBody(coll, prompt, top_k, role, fails) ==
    IF fails \/ CollectionQueryRaises(NResults(coll, top_k))
    THEN {[raised |-> TRUE, docs |-> << >>]}
    ELSE {[raised |-> FALSE, docs |-> FilterDocs(results)]
          : results \in CollectionQuery(coll, Embed(prompt),
                                        NResults(coll, top_k),
                                        IF role = None THEN None ELSE role)}

\* the query with no except clause
QueryNoCatch(o) == o

\* query: except Exception -> return []
QueryCatch(o) == IF o.raised THEN [raised |-> FALSE, docs |-> << >>] ELSE o

\* query(prompt, top_k, role): every outcome the caller can observe
Query(coll, prompt, top_k, role, fails) ==
    {QueryCatch(o) : o \in QueryBody(coll, prompt, top_k, role, fails)}

\* add_message has no return statement and lets no exception out: what its
\* caller observes, whether the try block failed or not
AddReturn(fails) == [raised |-> FALSE, value |-> None]

\* count_messages(role): the ids matching the role, or collection.count();
\* a raising call is answered 0
CountMessages(coll, role, live, fails) ==
    IF fails \/ ~live
    THEN 0
    ELSE IF role # None
         THEN Cardinality(Matching(coll, role))
         ELSE CollectionCount(coll)

\* the documents collection.get(where) returns, in insertion order
RECURSIVE CollectionGet(_, _)
CollectionGet(coll, where) ==
    IF coll = << >>
    THEN << >>
    ELSE (IF where = None \/ Head(coll).role = where
          THEN <<Head(coll).text>>
          ELSE << >>) \o CollectionGet(Tail(coll), where)

\* docs[-count:]: the last count entries; -0 is 0, so the slice is the whole
\* list when count is 0, and a negative count drops the first -count entries
SliceFromMinus(docs, count) ==
    LET start == IF count > 0
                 THEN (IF Len(docs) > count THEN Len(docs) - count ELSE 0)
                 ELSE Min(0 - count, Len(docs))
    IN  SubSeq(docs, start + 1, Len(docs))

\* get_recent_messages(count, role); a raising call is answered []
GetRecentMessages(coll, count, role, live, fails) ==
    IF fails \/ ~live
    THEN << >>
    ELSE LET docs == CollectionGet(coll, role)
         IN  IF docs # << >>
             THEN (IF Len(docs) > count THEN SliceFromMinus(docs, count)
                                        ELSE docs)
             ELSE << >>

\* the characters of the texts and keywords that occur
Chars ==
    [hi |-> <<"h", "i">>, name |-> <<"n", "a", "m", "e">>,
     noir |-> <<"n", "o", "i", "r">>, glub |-> <<"g", "l", "u", "b">>,
     N |-> <<"N">>, ub |-> <<"u", "b">>]

Keywords == {"N", "ub"}

\* str.lower(), character by character
Lower(chars) == [i \in 1..Len(chars) |-> IF chars[i] = "N" THEN "n"
                                                           ELSE chars[i]]

\* keyword.lower() in doc.lower()
KeywordIn(keyword, doc) ==
    LET k == Lower(Chars[keyword])
        d == Lower(Chars[doc])
    IN  \E off \in 0..(Len(d) - Len(k)) :
            \A i \in 1..Len(k) : d[off + i] = k[i]

\* search_by_keyword: the loop over the documents, which stops once
\* matching_docs has top_k entries
RECURSIVE SearchLoop(_, _, _, _)
SearchLoop(docs, keyword, top_k, matching_docs) ==
    IF docs = << >>
    THEN matching_docs
    ELSE IF KeywordIn(keyword, Head(docs))
         THEN (IF Len(matching_docs) + 1 >= top_k
               THEN Append(matching_docs, Head(docs))
               ELSE SearchLoop(Tail(docs), keyword, top_k,
                               Append(matching_docs, Head(docs))))
         ELSE SearchLoop(Tail(docs), keyword, top_k, matching_docs)

\* search_by_keyword(keyword, top_k); a raising call is answered []
SearchByKeyword(coll, keyword, top_k, live, fails) ==
    IF fails \/ ~live
    THEN << >>
    ELSE SearchLoop(CollectionGet(coll, None), keyword, top_k, << >>)

\* get_memory_stats(): three count_messages calls, each of which may fail
\* and answer 0 on its own; the collection_name entry is left out
GetMemoryStats(coll, live, fails) ==
    [total_messages |-> CountMessages(coll, None, live, fails[1]),
     user_messages |-> CountMessages(coll, "user", live, fails[2]),
     ai_messages |-> CountMessages(coll, "ai", live, fails[3])]

\* how a call of clear can go: delete_collection raises, or it succeeds and
\* get_or_create_collection raises, or both succeed; delete_collection
\* raises when the collection does not exist
ClearOutcomes(live) ==
    IF live THEN {"ok", "delete_fails", "create_fails"} ELSE {"delete_fails"}

\* clear with the delete_collection call left out
ClearRecreatesOnly(coll, live, outcome) == [store |-> coll, live |-> live]

\* clear: the collection and whether self.collection names an existing one,
\* after the try block
Clear(coll, live, outcome) ==
    CASE outcome = "ok"           -> [store |-> << >>, live |-> TRUE]
      [] outcome = "create_fails" -> [store |-> << >>, live |-> FALSE]
      [] OTHER                    -> [store |-> coll, live |-> live]

\* clear has no return statement and its except clause only prints
ClearReturn(outcome) == [raised |-> FALSE, value |-> None]

\* ------------------------------------------- LangChainChat (langchain_chat.py)
\* clear_history returns nothing, whatever memory.clear did
ClearHistoryReturn(outcome) == ClearReturn(outcome)

SystemPrompt == "You are Noir, a chaotic VTuber"

\* "\n".join(f"[Context {i+1}]: {msg}" for i, msg in enumerate(context))
RECURSIVE ContextLines(_, _)
ContextLines(ctx, i) ==
    IF i > Len(ctx)
    THEN ""
    ELSE (IF i > 1 THEN "\n" ELSE "")
         \o "[Context " \o ToString(i) \o "]: " \o ctx[i]
         \o ContextLines(ctx, i + 1)

\* the messages list built for llm.invoke: a system message carrying the
\* retrieved context and one user message
Messages(ctx, input) ==
    << [role |-> "system",
        content |-> SystemPrompt \o "\n\nPrevious context:\n"
                    \o ContextLines(ctx, 1)],
       [role |-> "user", content |-> "User message: " \o input] >>

HumanMessage(content, k) == [type |-> "human", content |-> content, turn |-> k]
AIMessage(content, k) == [type |-> "ai", content |-> content, turn |-> k]

\* error_msg = f"Error generating response: {str(e)}"
ErrorMsg(e) == "Error generating response: " \o e

\* ------------------------------------------- DeepSeekClient (deepseek_client.py)
\* the content of the first message with role user
RECURSIVE FirstUserContent(_)
FirstUserContent(messages) ==
    IF messages = << >>
    THEN ""
    ELSE IF Head(messages).role = "user"
         THEN Head(messages).content
         ELSE FirstUserContent(Tail(messages))

\* the content of the last message with role user, "" when there is none
RECURSIVE LastUserContent(_)
LastUserContent(messages) ==
    IF messages = << >>
    THEN ""
    ELSE IF messages[Len(messages)].role = "user"
         THEN messages[Len(messages)].content
         ELSE LastUserContent(SubSeq(messages, 1, Len(messages) - 1))

NoUserInput == "No user input found in messages."

\* the methods class DeepSeekClient defines
DeepSeekClientMethods == {"__init__", "get_chat_response", "get_response"}

\* a str as a returned value
StrValue(text) == [type |-> "str", value |-> text]

\* get_response: return ''.join: the join method of the empty string, which
\* the statement does not call
GetResponseValue(response_chunks) ==
    [type |-> "builtin_function_or_method", value |-> "''.join"]

\* --------------------------------------------------- VTuberChatApp (main.py)
\* the list left as it is
KeepAll(messages, n) == messages

\* chat_messages[-20:] once the list is longer than 20
KeepLast(messages, n) ==
    IF Len(messages) > n
    THEN SubSeq(messages, Len(messages) - n + 1, Len(messages))
    ELSE messages

\* add_message(sender, message, is_error): formatted_msg joins
\* conversation_history; the timestamp is left out and the colour is fixed by
\* sender and is_error
AppAddMessage(conv, sender, message, is_error) ==
    Append(conv, [sender |-> sender, message |-> message,
                  is_error |-> is_error])

\* the messages __init__ and run() add before the first event is handled
Welcome ==
    <<[sender |-> "System", message |-> "Speech recognizer initialized",
       is_error |-> FALSE],
      [sender |-> "System", message |-> "Text-to-speech initialized",
       is_error |-> FALSE],
      [sender |-> "System", message |-> "AI client initialized",
       is_error |-> FALSE],
      [sender |-> "System",
       message |-> "Noir VTuber Chat Assistant initialized!",
       is_error |-> FALSE],
      [sender |-> "System", message |-> "Commands", is_error |-> FALSE],
      [sender |-> "System", message |-> "Application ready!",
       is_error |-> FALSE]>>

\* ''.join of the fragments
RECURSIVE Join(_)
Join(chunks) == IF chunks = << >> THEN "" ELSE Head(chunks) \o Join(Tail(chunks))

\* ------------------------------------------------------------------- state
\* whether a call on self.collection may succeed or fail (encode raising, the
\* store raising); on a collection that no longer exists every call fails
Failures == IF collection_live THEN BOOLEAN ELSE {TRUE}

NoCall == [op |-> "none"]

Init ==
    /\ store = << >>
    /\ nextId = 1
    /\ history = << >>
    /\ chat_messages = << >>
    /\ pc = [t \in Threads |-> "idle"]
    /\ text_in = [t \in Threads |-> ""]
    /\ user_input = [t \in Threads |-> ""]
    /\ context = [t \in Threads |-> << >>]
    /\ sent = [t \in Threads |-> << >>]
    /\ response = [t \in Threads |-> ""]
    /\ out = [t \in Threads |-> << >>]
    /\ turn = [t \in Threads |-> 0]
    /\ issued = 0
    /\ log = << >>
    /\ ret = NoCall
    /\ collection_live = TRUE
    /\ clear_pc = "idle"
    /\ conversation_history = Welcome
    /\ voice_input_enabled = FALSE
    /\ is_listening = FALSE
    /\ stop_listening = FALSE
    /\ voice_threads = << >>
    /\ toggles = 0

\* what the log keeps of a turn when it is issued
NewTurn(t, text) ==
    [thread |-> t, text |-> text, input |-> "", hist0 |-> history,
     store0 |-> store, storeFailed |-> FALSE, queryFailed |-> FALSE,
     adds |-> << >>, gen |-> "pending", histAtCall |-> << >>,
     response |-> "", done |-> FALSE, caller |-> "gui",
     abandoned |-> FALSE, messages |-> << >>]

\* ------------------------------------------------------ a turn, step by step
\* add_message("You", text) and process_user_input(text): the user message
\* joins chat_messages, which is cut to its last 20 entries
ProcessUserInput(t, text) ==
    /\ pc[t] = "idle"
    /\ conversation_history' =
           AppAddMessage(AppAddMessage(conversation_history,
                                       "You", text, FALSE),
                         "System", "Processing...", FALSE)
    /\ chat_messages' = KeepLast(
           Append(chat_messages, [role |-> "user", content |-> text]),
           ChatWindow)
    /\ issued' = issued + 1
    /\ turn' = [turn EXCEPT ![t] = issued + 1]
    /\ text_in' = [text_in EXCEPT ![t] = text]
    /\ out' = [out EXCEPT ![t] = << >>]
    /\ log' = Append(log, NewTurn(t, text))
    /\ pc' = [pc EXCEPT ![t] = "get_chat_response"]
    /\ UNCHANGED <<store, nextId, history, user_input, context, sent,
                   response, ret, collection_live, clear_pc>>
    /\ UNCHANGED voiceVars

\* get_chat_response(self.chat_messages): the generator's first step
GetChatResponse(t) ==
    /\ pc[t] = "get_chat_response"
    /\ LET u == LastUserContent(chat_messages)
       IN  /\ user_input' = [user_input EXCEPT ![t] = u]
           /\ log' = [log EXCEPT ![turn[t]].input = u]
           /\ IF u = ""
              THEN /\ out' = [out EXCEPT ![t] = <<NoUserInput>>]
                   /\ pc' = [pc EXCEPT ![t] = "collect"]
              ELSE /\ out' = out
                   /\ pc' = [pc EXCEPT ![t] = "add_user"]
    /\ UNCHANGED <<store, nextId, history, chat_messages, text_in, context,
                   sent, response, turn, issued, ret,
                   collection_live, clear_pc, conversation_history>>
    /\ UNCHANGED voiceVars

\* stream_response: self.memory.add_message(user_input, role="user")
SRAddUser(t) ==
    /\ pc[t] = "add_user"
    /\ \E fails \in Failures :
         /\ store' = AddMessage(store, nextId, user_input[t], "user", turn[t],
                                fails)
         /\ nextId' = IF fails THEN nextId ELSE nextId + 1
         /\ log' = [log EXCEPT
                      ![turn[t]].storeFailed = @ \/ fails,
                      ![turn[t]].adds =
                          Append(@, [role |-> "user", failed |-> fails])]
    /\ pc' = [pc EXCEPT ![t] = "query"]
    /\ UNCHANGED <<history, chat_messages, text_in, user_input, context, sent,
                   response, out, turn, issued, ret,
                   collection_live, clear_pc, conversation_history>>
    /\ UNCHANGED voiceVars

\* stream_response: context = self.memory.query(user_input, top_k=3); an
\* exception leaving query would reach the except clause of stream_response
SRQuery(t) ==
    /\ pc[t] = "query"
    /\ \E fails \in Failures :
         /\ \E o \in Query(store, user_input[t], ContextTopK, None, fails) :
              IF o.raised
              THEN /\ context' = context
                   /\ response' = [response EXCEPT ![t] = "memory"]
                   /\ pc' = [pc EXCEPT ![t] = "except"]
              ELSE /\ context' = [context EXCEPT ![t] = o.docs]
                   /\ response' = response
                   /\ pc' = [pc EXCEPT ![t] = "invoke"]
         /\ log' = [log EXCEPT ![turn[t]].storeFailed = @ \/ fails,
                               ![turn[t]].queryFailed = fails]
    /\ UNCHANGED <<store, nextId, history, chat_messages, text_in, user_input,
                   sent, out, turn, issued, ret,
                   collection_live, clear_pc, conversation_history>>
    /\ UNCHANGED voiceVars

\* stream_response: response = self.llm.invoke(messages) returns
SRInvoke(t) ==
    /\ pc[t] = "invoke"
    /\ sent' = [sent EXCEPT ![t] = Messages(context[t], user_input[t])]
    /\ \E r \in Responses :
         /\ response' = [response EXCEPT ![t] = r]
         /\ log' = [log EXCEPT ![turn[t]].gen = "ok",
                               ![turn[t]].response = r,
                               ![turn[t]].histAtCall = history]
    /\ pc' = [pc EXCEPT ![t] = "add_ai"]
    /\ UNCHANGED <<store, nextId, history, chat_messages, text_in, user_input,
                   context, out, turn, issued, ret,
                   collection_live, clear_pc, conversation_history>>
    /\ UNCHANGED voiceVars

\* the failing call with the user message appended to History before it
SRInvokeRaisesAfterAppend(t) ==
    /\ pc[t] = "invoke"
    /\ sent' = [sent EXCEPT ![t] = Messages(context[t], user_input[t])]
    /\ history' = Append(history, HumanMessage(user_input[t], turn[t]))
    /\ \E e \in Errors :
         /\ response' = [response EXCEPT ![t] = e]
         /\ log' = [log EXCEPT ![turn[t]].gen = "raised",
                               ![turn[t]].histAtCall = history]
    /\ pc' = [pc EXCEPT ![t] = "except"]
    /\ UNCHANGED <<store, nextId, chat_messages, text_in, user_input,
                   context, out, turn, issued, ret,
                   collection_live, clear_pc, conversation_history>>
    /\ UNCHANGED voiceVars

\* stream_response: self.llm.invoke(messages) raises
SRInvokeRaises(t) ==
    /\ pc[t] = "invoke"
    /\ sent' = [sent EXCEPT ![t] = Messages(context[t], user_input[t])]
    /\ \E e \in Errors :
         /\ response' = [response EXCEPT ![t] = e]
         /\ log' = [log EXCEPT ![turn[t]].gen = "raised",
                               ![turn[t]].histAtCall = history]
    /\ pc' = [pc EXCEPT ![t] = "except"]
    /\ UNCHANGED <<store, nextId, history, chat_messages, text_in, user_input,
                   context, out, turn, issued, ret,
                   collection_live, clear_pc, conversation_history>>
    /\ UNCHANGED voiceVars

\* the assistant's add tried a second time when it fails
SRAddAIRetries(t) ==
    /\ pc[t] = "add_ai"
    /\ \E fails \in Failures, again \in Failures :
         /\ store' = AddMessage(store, nextId, response[t], "ai", turn[t],
                                fails /\ again)
         /\ nextId' = IF fails /\ again THEN nextId ELSE nextId + 1
         /\ log' = [log EXCEPT
                      ![turn[t]].storeFailed = @ \/ fails,
                      ![turn[t]].adds =
                          IF fails
                          THEN @ \o <<[role |-> "ai", failed |-> TRUE],
                                      [role |-> "ai", failed |-> again]>>
                          ELSE Append(@, [role |-> "ai", failed |-> FALSE])]
    /\ pc' = [pc EXCEPT ![t] = "hist_user"]
    /\ UNCHANGED <<history, chat_messages, text_in, user_input, context, sent,
                   response, out, turn, issued, ret,
                   collection_live, clear_pc, conversation_history>>
    /\ UNCHANGED voiceVars

\* the assistant's add with the role argument left at its default, "user"
SRAddAIDefaultRole(t) ==
    /\ pc[t] = "add_ai"
    /\ \E fails \in Failures :
         /\ store' = AddMessage(store, nextId, response[t], "user", turn[t],
                                fails)
         /\ nextId' = IF fails THEN nextId ELSE nextId + 1
         /\ log' = [log EXCEPT
                      ![turn[t]].storeFailed = @ \/ fails,
                      ![turn[t]].adds =
                          Append(@, [role |-> "ai", failed |-> fails])]
    /\ pc' = [pc EXCEPT ![t] = "hist_user"]
    /\ UNCHANGED <<history, chat_messages, text_in, user_input, context, sent,
                   response, out, turn, issued, ret,
                   collection_live, clear_pc, conversation_history>>
    /\ UNCHANGED voiceVars

\* stream_response: self.memory.add_message(response.content, role="ai")
SRAddAI(t) ==
    /\ pc[t] = "add_ai"
    /\ \E fails \in Failures :
         /\ store' = AddMessage(store, nextId, response[t], "ai", turn[t],
                                fails)
         /\ nextId' = IF fails THEN nextId ELSE nextId + 1
         /\ log' = [log EXCEPT
                      ![turn[t]].storeFailed = @ \/ fails,
                      ![turn[t]].adds =
                          Append(@, [role |-> "ai", failed |-> fails])]
    /\ pc' = [pc EXCEPT ![t] = "hist_user"]
    /\ UNCHANGED <<history, chat_messages, text_in, user_input, context, sent,
                   response, out, turn, issued, ret,
                   collection_live, clear_pc, conversation_history>>
    /\ UNCHANGED voiceVars

\* the append followed by a cut of History to its last two entries
SRHistUserWindowed(t) ==
    /\ pc[t] = "hist_user"
    /\ history' = KeepLast(Append(history,
                                  HumanMessage(user_input[t], turn[t])), 2)
    /\ pc' = [pc EXCEPT ![t] = "hist_ai"]
    /\ UNCHANGED <<store, nextId, chat_messages, text_in, user_input, context,
                   sent, response, out, turn, issued, log, ret,
                   collection_live, clear_pc, conversation_history>>
    /\ UNCHANGED voiceVars

\* the append with the prompt's user content in place of the raw message
SRHistUserAugmented(t) ==
    /\ pc[t] = "hist_user"
    /\ history' = Append(history,
                         HumanMessage(sent[t][Len(sent[t])].content, turn[t]))
    /\ pc' = [pc EXCEPT ![t] = "hist_ai"]
    /\ UNCHANGED <<store, nextId, chat_messages, text_in, user_input, context,
                   sent, response, out, turn, issued, log, ret,
                   collection_live, clear_pc, conversation_history>>
    /\ UNCHANGED voiceVars

\* stream_response: self.history.append(HumanMessage(content=user_input))
SRHistUser(t) ==
    /\ pc[t] = "hist_user"
    /\ history' = Append(history, HumanMessage(user_input[t], turn[t]))
    /\ pc' = [pc EXCEPT ![t] = "hist_ai"]
    /\ UNCHANGED <<store, nextId, chat_messages, text_in, user_input, context,
                   sent, response, out, turn, issued, log, ret,
                   collection_live, clear_pc, conversation_history>>
    /\ UNCHANGED voiceVars

\* stream_response: self.history.append(AIMessage(content=response.content))
SRHistAI(t) ==
    /\ pc[t] = "hist_ai"
    /\ history' = Append(history, AIMessage(response[t], turn[t]))
    /\ pc' = [pc EXCEPT ![t] = "yield"]
    /\ UNCHANGED <<store, nextId, chat_messages, text_in, user_input, context,
                   sent, response, out, turn, issued, log, ret,
                   collection_live, clear_pc, conversation_history>>
    /\ UNCHANGED voiceVars

\* the response yielded a second time
SRYieldTwice(t) ==
    /\ pc[t] = "yield"
    /\ out' = [out EXCEPT ![t] = @ \o <<response[t], response[t]>>]
    /\ pc' = [pc EXCEPT ![t] = "collect"]
    /\ UNCHANGED <<store, nextId, history, chat_messages, text_in, user_input,
                   context, sent, response, turn, issued, log, ret,
                   collection_live, clear_pc, conversation_history>>
    /\ UNCHANGED voiceVars

\* stream_response: yield response.content
SRYield(t) ==
    /\ pc[t] = "yield"
    /\ out' = [out EXCEPT ![t] = Append(@, response[t])]
    /\ pc' = [pc EXCEPT ![t] = "collect"]
    /\ UNCHANGED <<store, nextId, history, chat_messages, text_in, user_input,
                   context, sent, response, turn, issued, log, ret,
                   collection_live, clear_pc, conversation_history>>
    /\ UNCHANGED voiceVars

\* the except clause committing the error text as the assistant's turn
SRExceptCommits(t) ==
    /\ pc[t] = "except"
    /\ out' = [out EXCEPT ![t] = Append(@, ErrorMsg(response[t]))]
    /\ store' = AddMessage(store, nextId, ErrorMsg(response[t]), "ai",
                           turn[t], FALSE)
    /\ nextId' = nextId + 1
    /\ history' = Append(history, AIMessage(ErrorMsg(response[t]), turn[t]))
    /\ pc' = [pc EXCEPT ![t] = "collect"]
    /\ UNCHANGED <<chat_messages, text_in, user_input, context, sent,
                   response, turn, issued, log, ret,
                   collection_live, clear_pc, conversation_history>>
    /\ UNCHANGED voiceVars

\* the except clause letting the exception out with no fragment yielded
SRExceptReraises(t) ==
    /\ pc[t] = "except"
    /\ pc' = [pc EXCEPT ![t] = "collect"]
    /\ UNCHANGED <<store, nextId, history, chat_messages, text_in, user_input,
                   context, sent, response, out, turn, issued, log, ret,
                   collection_live, clear_pc, conversation_history>>
    /\ UNCHANGED voiceVars

\* stream_response: except Exception as e: yield error_msg
SRExcept(t) ==
    /\ pc[t] = "except"
    /\ out' = [out EXCEPT ![t] = Append(@, ErrorMsg(response[t]))]
    /\ pc' = [pc EXCEPT ![t] = "collect"]
    /\ UNCHANGED <<store, nextId, history, chat_messages, text_in, user_input,
                   context, sent, response, turn, issued, log, ret,
                   collection_live, clear_pc, conversation_history>>
    /\ UNCHANGED voiceVars

\* process_user_input: full_response is the joined fragments; when it is not
\* blank it joins chat_messages as the assistant's message and is displayed
Collect(t) ==
    /\ pc[t] = "collect"
    /\ log[turn[t]].caller = "gui"
    /\ chat_messages' =
           IF Join(out[t]) # ""
           THEN Append(chat_messages,
                       [role |-> "assistant", content |-> Join(out[t])])
           ELSE chat_messages
    /\ conversation_history' =
           IF Join(out[t]) # ""
           THEN AppAddMessage(conversation_history, "AI", Join(out[t]), FALSE)
           ELSE AppAddMessage(conversation_history, "System",
                              "Empty response from AI", TRUE)
    /\ log' = [log EXCEPT ![turn[t]].done = TRUE]
    /\ pc' = [pc EXCEPT ![t] = "idle"]
    /\ UNCHANGED <<store, nextId, history, text_in, user_input, context, sent,
                   response, out, turn, issued, ret,
                   collection_live, clear_pc>>
    /\ UNCHANGED voiceVars

Step(t) ==
    \/ \E text \in UserTexts : issued < MaxTurns /\ ProcessUserInput(t, text)
    \/ GetChatResponse(t)
    \/ SRAddUser(t)
    \/ SRQuery(t)
    \/ SRInvoke(t)
    \/ SRInvokeRaises(t)
    \/ SRAddAI(t)
    \/ SRHistUser(t)
    \/ SRHistAI(t)
    \/ SRYield(t)
    \/ SRExcept(t)
    \/ Collect(t)

\* one caller: the event loop alone issues turns (voice input is off)
Next == Step("main")

Spec == Init /\ [][Next]_vars

\* two callers: the event loop and the voice loop thread
NextConc ==
    \E t \in Threads :
        \/ \E text \in UserTexts :
             issued < MaxConcTurns /\ ProcessUserInput(t, text)
        \/ GetChatResponse(t)
        \/ SRAddUser(t)
        \/ SRQuery(t)
        \/ SRInvoke(t)
        \/ SRInvokeRaises(t)
        \/ SRAddAI(t)
        \/ SRHistUser(t)
        \/ SRHistAI(t)
        \/ SRYield(t)
        \/ SRExcept(t)
        \/ Collect(t)

SpecConc == Init /\ [][NextConc]_vars

\* ------------------------------------------------------ the voice toggle
\* the state of the three flags and of the threads after
\* start_voice_listening(), with a recognizer present: nothing is done when
\* is_listening is set; otherwise the flags are set and a voice_loop thread
\* is started
StartVoiceListening(listening, stop, threads) ==
    IF listening
    THEN [is_listening |-> listening, stop_listening |-> stop,
          voice_threads |-> threads]
    ELSE [is_listening |-> TRUE, stop_listening |-> FALSE,
          voice_threads |-> Append(threads, "while")]

\* handle_command("//voice") with a recognizer present
HandleVoice ==
    /\ toggles < MaxToggles
    /\ toggles' = toggles + 1
    /\ voice_input_enabled' = ~voice_input_enabled
    /\ IF ~voice_input_enabled
       THEN LET after == StartVoiceListening(is_listening, stop_listening,
                                             voice_threads)
            IN  /\ is_listening' = after.is_listening
                /\ stop_listening' = after.stop_listening
                /\ voice_threads' = after.voice_threads
       ELSE /\ stop_listening' = TRUE
            /\ UNCHANGED <<is_listening, voice_threads>>
    /\ UNCHANGED <<store, nextId, ret, collection_live, clear_pc, history,
                   chat_messages, pc, text_in, user_input, context, sent,
                   response, out, turn, issued, log, conversation_history>>

\* voice_loop: the test of the while loop, "while not self.stop_listening"
VoiceLoopTest(i) ==
    /\ i \in 1..Len(voice_threads)
    /\ voice_threads[i] = "while"
    /\ voice_threads' =
           [voice_threads EXCEPT ![i] = IF stop_listening THEN "exit" ELSE "if"]
    /\ UNCHANGED <<voice_input_enabled, is_listening, stop_listening, toggles,
                   store, nextId, ret, collection_live, clear_pc, history,
                   chat_messages, pc, text_in, user_input, context, sent,
                   response, out, turn, issued, log, conversation_history>>

\* voice_loop: "if self.voice_input_enabled"; with voice input off the
\* thread sleeps and goes round the loop
VoiceLoopEnabled(i) ==
    /\ i \in 1..Len(voice_threads)
    /\ voice_threads[i] = "if"
    /\ voice_threads' =
           [voice_threads EXCEPT ![i] =
               IF voice_input_enabled THEN "listen" ELSE "while"]
    /\ UNCHANGED <<voice_input_enabled, is_listening, stop_listening, toggles,
                   store, nextId, ret, collection_live, clear_pc, history,
                   chat_messages, pc, text_in, user_input, context, sent,
                   response, out, turn, issued, log, conversation_history>>

\* voice_loop: listen_with_voice_detection() returns with nothing heard, or
\* with a text that is dropped because stop_listening is set
VoiceListenReturns(i) ==
    /\ i \in 1..Len(voice_threads)
    /\ voice_threads[i] = "listen"
    /\ voice_threads' = [voice_threads EXCEPT ![i] = "while"]
    /\ UNCHANGED <<voice_input_enabled, is_listening, stop_listening, toggles,
                   store, nextId, ret, collection_live, clear_pc, history,
                   chat_messages, pc, text_in, user_input, context, sent,
                   response, out, turn, issued, log, conversation_history>>

\* voice_loop: self.is_listening = False after the loop; the thread ends
VoiceLoopExit(i) ==
    /\ i \in 1..Len(voice_threads)
    /\ voice_threads[i] = "exit"
    /\ is_listening' = FALSE
    /\ voice_threads' = [voice_threads EXCEPT ![i] = "dead"]
    /\ UNCHANGED <<voice_input_enabled, stop_listening, toggles,
                   store, nextId, ret, collection_live, clear_pc, history,
                   chat_messages, pc, text_in, user_input, context, sent,
                   response, out, turn, issued, log, conversation_history>>

VoiceLoop(i) ==
    \/ VoiceLoopTest(i)
    \/ VoiceLoopEnabled(i)
    \/ VoiceListenReturns(i)
    \/ VoiceLoopExit(i)

NextVoice ==
    \/ HandleVoice
    \/ \E i \in 1..MaxToggles : VoiceLoopTest(i)
    \/ \E i \in 1..MaxToggles : VoiceLoopEnabled(i)
    \/ \E i \in 1..MaxToggles : VoiceListenReturns(i)
    \/ \E i \in 1..MaxToggles : VoiceLoopExit(i)

\* every started thread keeps running, and a recognition ends
SpecVoice ==
    /\ Init
    /\ [][NextVoice]_vars
    /\ \A i \in 1..MaxToggles : WF_vars(VoiceLoop(i))

\* --------------------------------------------------------- a long session
\* turns one after the other with the memory store out of reach: every add
\* and every query fails, the backend answers, and one text is typed
NextWindow ==
    \/ issued < MaxWindowTurns /\ ProcessUserInput("main", "hi")
    \/ GetChatResponse("main")
    \/ SRAddUser("main") /\ store' = store
    \/ SRQuery("main") /\ log'[turn["main"]].queryFailed
    \/ SRInvoke("main")
    \/ SRAddAI("main") /\ store' = store
    \/ SRHistUser("main")
    \/ SRHistAI("main")
    \/ SRYield("main")
    \/ Collect("main")

SpecWindow == Init /\ [][NextWindow]_vars

\* ------------------------------------------------- a session with clears
\* clear_history with the reset of History left out
ClearHistoryMemoryOnly(t) ==
    /\ pc[t] = "idle"
    /\ \E outcome \in ClearOutcomes(collection_live) :
         /\ store' = Clear(store, collection_live, outcome).store
         /\ collection_live' = Clear(store, collection_live, outcome).live
         /\ ret' = [op |-> "clear_history", outcome |-> outcome,
                    at |-> issued,
                    returned |-> ClearHistoryReturn(outcome)]
    /\ UNCHANGED <<history, nextId, chat_messages, pc, text_in, user_input,
                   context, sent, response, out, turn, issued, log, clear_pc,
                   conversation_history>>
    /\ UNCHANGED voiceVars

\* clear_history(): self.history = [] and self.memory.clear(), called between
\* turns; ret.at is the number of turns issued when it was called
ClearHistory(t) ==
    /\ pc[t] = "idle"
    /\ history' = << >>
    /\ \E outcome \in ClearOutcomes(collection_live) :
         /\ store' = Clear(store, collection_live, outcome).store
         /\ collection_live' = Clear(store, collection_live, outcome).live
         /\ ret' = [op |-> "clear_history", outcome |-> outcome,
                    at |-> issued,
                    returned |-> ClearHistoryReturn(outcome)]
    /\ UNCHANGED <<nextId, chat_messages, pc, text_in, user_input, context,
                   sent, response, out, turn, issued, log, clear_pc,
                   conversation_history>>
    /\ UNCHANGED voiceVars

NextSession == Step("main") \/ ClearHistory("main")

SpecSession == Init /\ [][NextSession]_vars

\* ------------------------------------------------- the //clear command
\* handle_command("//clear") with an AI client present, between turns: the
\* two GUI lists are emptied, then self.ai_client.clear_conversation() is
\* looked up; DeepSeekClient has no such attribute, so AttributeError leaves
\* handle_command and run(), and the application exits
HandleClear(t) ==
    /\ pc[t] = "idle"
    /\ "clear_conversation" \notin DeepSeekClientMethods
    /\ conversation_history' = << >>
    /\ chat_messages' = << >>
    /\ ret' = [op |-> "//clear", raised |-> TRUE,
               exception |-> "AttributeError"]
    /\ pc' = [pc EXCEPT ![t] = "exited"]
    /\ UNCHANGED <<store, nextId, history, text_in, user_input, context, sent,
                   response, out, turn, issued, log, collection_live,
                   clear_pc>>
    /\ UNCHANGED voiceVars

NextGui == Step("main") \/ HandleClear("main")

SpecGui == Init /\ [][NextGui]_vars

\* ------------------------------------------ DeepSeekClient.get_response
\* get_response(text) up to the first step of the generator it reads:
\* messages is the one user message, from which get_chat_response takes
\* its user input
GetResponseStart(t, text) ==
    /\ pc[t] = "idle"
    /\ issued < MaxTurns
    /\ LET u == LastUserContent(<<[role |-> "user", content |-> text]>>)
       IN  /\ user_input' = [user_input EXCEPT ![t] = u]
           /\ log' = Append(log, [NewTurn(t, text) EXCEPT
                                     !.caller = "client", !.input = u])
           /\ IF u = ""
              THEN /\ out' = [out EXCEPT ![t] = <<NoUserInput>>]
                   /\ pc' = [pc EXCEPT ![t] = "collect"]
              ELSE /\ out' = [out EXCEPT ![t] = << >>]
                   /\ pc' = [pc EXCEPT ![t] = "add_user"]
    /\ issued' = issued + 1
    /\ turn' = [turn EXCEPT ![t] = issued + 1]
    /\ text_in' = [text_in EXCEPT ![t] = text]
    /\ UNCHANGED <<store, nextId, history, chat_messages, context, sent,
                   response, ret, collection_live, clear_pc,
                   conversation_history>>
    /\ UNCHANGED voiceVars

\* get_response: the loop has read every fragment; the return statement
GetResponseReturn(t) ==
    /\ pc[t] = "collect"
    /\ log[turn[t]].caller = "client"
    /\ ret' = [op |-> "get_response", turn |-> turn[t],
               response_chunks |-> out[t],
               returned |-> GetResponseValue(out[t])]
    /\ log' = [log EXCEPT ![turn[t]].done = TRUE]
    /\ pc' = [pc EXCEPT ![t] = "idle"]
    /\ UNCHANGED <<store, nextId, history, chat_messages, text_in, user_input,
                   context, sent, response, out, turn, issued,
                   collection_live, clear_pc, conversation_history>>
    /\ UNCHANGED voiceVars

NextClient ==
    \/ \E text \in UserTexts \cup {""} : GetResponseStart("main", text)
    \/ SRAddUser("main")
    \/ SRQuery("main")
    \/ SRInvoke("main")
    \/ SRInvokeRaises("main")
    \/ SRAddAI("main")
    \/ SRHistUser("main")
    \/ SRHistAI("main")
    \/ SRYield("main")
    \/ SRExcept("main")
    \/ GetResponseReturn("main")

SpecClient == Init /\ [][NextClient]_vars

\* ----------------------------------- DeepSeekClient.get_chat_response
\* lists a caller may hand to get_chat_response
MessageLists ==
    LET U(c) == [role |-> "user", content |-> c]
        A(c) == [role |-> "assistant", content |-> c]
    IN  {<< >>, <<A("noir")>>, <<U("")>>, <<U("hi"), A("noir")>>,
         <<U("hi"), A("noir"), U("name")>>, <<U("hi"), U("")>>,
         <<U(""), A("glub")>>}

\* get_chat_response(messages) read by a caller of the client, up to the
\* first step of the generator
GetChatResponseStart(t, messages) ==
    /\ pc[t] = "idle"
    /\ issued < MaxTurns
    /\ LET u == LastUserContent(messages)
       IN  /\ user_input' = [user_input EXCEPT ![t] = u]
           /\ log' = Append(log, [NewTurn(t, "") EXCEPT
                                     !.caller = "api", !.input = u,
                                     !.messages = messages])
           /\ IF u = ""
              THEN /\ out' = [out EXCEPT ![t] = <<NoUserInput>>]
                   /\ pc' = [pc EXCEPT ![t] = "collect"]
              ELSE /\ out' = [out EXCEPT ![t] = << >>]
                   /\ pc' = [pc EXCEPT ![t] = "add_user"]
    /\ issued' = issued + 1
    /\ turn' = [turn EXCEPT ![t] = issued + 1]
    /\ UNCHANGED <<store, nextId, history, chat_messages, text_in, context,
                   sent, response, ret, collection_live, clear_pc,
                   conversation_history>>
    /\ UNCHANGED voiceVars

\* the generator is exhausted: the caller has every fragment
GetChatResponseEnd(t) ==
    /\ pc[t] = "collect"
    /\ log[turn[t]].caller = "api"
    /\ ret' = [op |-> "get_chat_response", turn |-> turn[t],
               fragments |-> out[t]]
    /\ log' = [log EXCEPT ![turn[t]].done = TRUE]
    /\ pc' = [pc EXCEPT ![t] = "idle"]
    /\ UNCHANGED <<store, nextId, history, chat_messages, text_in, user_input,
                   context, sent, response, out, turn, issued,
                   collection_live, clear_pc, conversation_history>>
    /\ UNCHANGED voiceVars

NextChatApi ==
    \/ \E messages \in MessageLists : GetChatResponseStart("main", messages)
    \/ SRAddUser("main")
    \/ SRQuery("main")
    \/ SRInvoke("main")
    \/ SRInvokeRaises("main")
    \/ SRAddAI("main")
    \/ SRHistUser("main")
    \/ SRHistAI("main")
    \/ SRYield("main")
    \/ SRExcept("main")
    \/ GetChatResponseEnd("main")

SpecChatApi == Init /\ [][NextChatApi]_vars

\* ------------------------------------ a caller that stops reading the stream
\* close() with the generator's except clause catching GeneratorExit: the
\* clause yields its error message
AbandonCaught(t) ==
    /\ pc[t] = "collect"
    /\ out' = [out EXCEPT ![t] = Append(@, ErrorMsg("GeneratorExit"))]
    /\ log' = [log EXCEPT ![turn[t]].abandoned = TRUE,
                          ![turn[t]].done = TRUE]
    /\ pc' = [pc EXCEPT ![t] = "idle"]
    /\ UNCHANGED <<store, nextId, history, chat_messages, text_in, user_input,
                   context, sent, response, turn, issued, ret,
                   collection_live, clear_pc, conversation_history>>
    /\ UNCHANGED voiceVars

\* the caller closes the generator while it is suspended at a yield, having
\* read one fragment: GeneratorExit is raised at the yield, which except
\* Exception does not catch, and the generator ends
Abandon(t) ==
    /\ pc[t] = "collect"
    /\ log' = [log EXCEPT ![turn[t]].abandoned = TRUE,
                          ![turn[t]].done = TRUE]
    /\ pc' = [pc EXCEPT ![t] = "idle"]
    /\ UNCHANGED <<store, nextId, history, chat_messages, text_in, user_input,
                   context, sent, response, out, turn, issued, ret,
                   collection_live, clear_pc, conversation_history>>
    /\ UNCHANGED voiceVars

NextAbandon == Step("main") \/ Abandon("main")

SpecAbandon == Init /\ [][NextAbandon]_vars

\* ------------------------------------------- the engine called on its own
\* add_message(message, role)
MemAdd(message, role) ==
    /\ nextId <= MaxAdds
    /\ \E fails \in Failures :
         /\ store' = AddMessage(store, nextId, message, role, 0, fails)
         /\ nextId' = IF fails THEN nextId ELSE nextId + 1
         /\ ret' = [op |-> "add", message |-> message, role |-> role,
                    failed |-> fails, outcome |-> AddReturn(fails),
                    in_clear |-> clear_pc = "deleted"]
    /\ UNCHANGED orchVars
    /\ UNCHANGED <<collection_live, clear_pc>>

\* query(prompt, top_k, role)
MemQuery(prompt, top_k, role) ==
    /\ \E fails \in Failures :
         \E o \in Query(store, prompt, top_k, role, fails) :
              ret' = [op |-> "query", prompt |-> prompt, top_k |-> top_k,
                      role |-> role, failed |-> fails, raised |-> o.raised,
                      docs |-> o.docs, in_clear |-> clear_pc = "deleted"]
    /\ UNCHANGED <<store, nextId>>
    /\ UNCHANGED orchVars
    /\ UNCHANGED <<collection_live, clear_pc>>

\* count_messages(role)
MemCount(role) ==
    /\ \E fails \in Failures :
         ret' = [op |-> "count", role |-> role, failed |-> fails,
                 n |-> CountMessages(store, role, collection_live, fails)]
    /\ UNCHANGED <<store, nextId, collection_live, clear_pc>>
    /\ UNCHANGED orchVars

\* clear(), by a caller that nothing interrupts
MemClear ==
    /\ clear_pc = "idle"
    /\ \E outcome \in ClearOutcomes(collection_live) :
         /\ store' = Clear(store, collection_live, outcome).store
         /\ collection_live' = Clear(store, collection_live, outcome).live
         /\ ret' = [op |-> "clear", outcome |-> outcome,
                    returned |-> ClearReturn(outcome)]
    /\ UNCHANGED <<nextId, clear_pc>>
    /\ UNCHANGED orchVars

\* clear() up to the return of delete_collection("chat_memory")
ClearDelete ==
    /\ clear_pc = "idle"
    /\ \E fails \in Failures :
         IF fails
         THEN /\ ret' = [op |-> "clear", outcome |-> "delete_fails",
                         returned |-> ClearReturn("delete_fails")]
              /\ UNCHANGED <<store, collection_live, clear_pc>>
         ELSE /\ store' = << >>
              /\ collection_live' = FALSE
              /\ clear_pc' = "deleted"
              /\ ret' = ret
    /\ UNCHANGED nextId
    /\ UNCHANGED orchVars

\* clear() from get_or_create_collection to its return
ClearCreate ==
    /\ clear_pc = "deleted"
    /\ \E fails \in BOOLEAN :
         /\ collection_live' = ~fails
         /\ ret' = [op |-> "clear",
                    outcome |-> IF fails THEN "create_fails" ELSE "ok",
                    returned |-> ClearReturn(IF fails THEN "create_fails"
                                                      ELSE "ok")]
    /\ clear_pc' = "idle"
    /\ UNCHANGED <<store, nextId>>
    /\ UNCHANGED orchVars

\* get_recent_messages that takes the last record out of the store
MemRecentPops(count, role) ==
    /\ \E fails \in Failures :
         ret' = [op |-> "recent", count |-> count, role |-> role,
                 failed |-> fails,
                 docs |-> GetRecentMessages(store, count, role,
                                            collection_live, fails)]
    /\ store' = IF store = << >> THEN store
                ELSE SubSeq(store, 1, Len(store) - 1)
    /\ UNCHANGED <<nextId, collection_live, clear_pc>>
    /\ UNCHANGED orchVars

\* get_recent_messages(count, role)
MemRecent(count, role) ==
    /\ \E fails \in Failures :
         ret' = [op |-> "recent", count |-> count, role |-> role,
                 failed |-> fails,
                 docs |-> GetRecentMessages(store, count, role,
                                            collection_live, fails)]
    /\ UNCHANGED <<store, nextId, collection_live, clear_pc>>
    /\ UNCHANGED orchVars

\* search_by_keyword(keyword, top_k)
MemSearch(keyword, top_k) ==
    /\ \E fails \in Failures :
         ret' = [op |-> "search", keyword |-> keyword, top_k |-> top_k,
                 failed |-> fails,
                 docs |-> SearchByKeyword(store, keyword, top_k,
                                          collection_live, fails)]
    /\ UNCHANGED <<store, nextId, collection_live, clear_pc>>
    /\ UNCHANGED orchVars

\* get_memory_stats()
MemStats ==
    /\ \E fails \in [1..3 -> Failures] :
         ret' = [op |-> "stats", failed |-> fails,
                 stats |-> GetMemoryStats(store, collection_live, fails)]
    /\ UNCHANGED <<store, nextId, collection_live, clear_pc>>
    /\ UNCHANGED orchVars

\* one caller inside clear() while another calls add_message and query
NextMemConc ==
    \/ ClearDelete
    \/ ClearCreate
    \/ \E message \in Texts, role \in Roles : MemAdd(message, role)
    \/ \E prompt \in Texts, top_k \in 0..MaxTopK, role \in RoleArgs :
         MemQuery(prompt, top_k, role)

SpecMemConc == Init /\ [][NextMemConc]_vars

NextMem ==
    \/ \E message \in Texts, role \in Roles : MemAdd(message, role)
    \/ \E prompt \in Texts, top_k \in 0..MaxTopK, role \in RoleArgs :
         MemQuery(prompt, top_k, role)
    \/ \E role \in RoleArgs : MemCount(role)
    \/ MemClear

SpecMem == Init /\ [][NextMem]_vars

\* every operation of the engine, the query as stream_response calls it
NextEngine ==
    \/ \E message \in Texts, role \in Roles : MemAdd(message, role)
    \/ \E prompt \in UserTexts : MemQuery(prompt, ContextTopK, None)
    \/ \E role \in RoleArgs : MemCount(role)
    \/ \E count \in 0..1, role \in RoleArgs : MemRecent(count, role)
    \/ \E keyword \in Keywords, top_k \in 1..2 : MemSearch(keyword, top_k)
    \/ MemStats
    \/ MemClear

SpecEngine == Init /\ [][NextEngine]_vars

\* the first turn of a conversation, its generation succeeding, and after it
\* calls of the engine's operations by the same thread
NextEngineSession ==
    \/ issued = 0 /\ ProcessUserInput("main", "hi")
    \/ GetChatResponse("main")
    \/ SRAddUser("main")
    \/ SRQuery("main")
    \/ SRInvoke("main")
    \/ SRAddAI("main")
    \/ SRHistUser("main")
    \/ SRHistAI("main")
    \/ SRYield("main")
    \/ Collect("main")
    \/ pc["main"] = "idle" /\ issued > 0 /\ NextEngine

SpecEngineSession == Init /\ [][NextEngineSession]_vars

\* the engine with add_message called with any string as the role
NextRoles ==
    \/ \E message \in UserTexts, role \in RoleStrings : MemAdd(message, role)
    \/ \E role \in Roles : MemQuery("hi", ContextTopK, role)
    \/ \E role \in RoleArgs : MemCount(role)
    \/ MemStats

SpecRoles == Init /\ [][NextRoles]_vars

\* ------------------------------------------------------------ the claims
Turns == 1..Len(log)

\* turn k has ended and no later turn has been issued
AfterTurn(k) == log[k].done /\ issued = k

\* the entries of a sequence that satisfy Test
CountWhere(seq, Test(_)) == Cardinality({i \in 1..Len(seq) : Test(seq[i])})

IsAI(m) == m.type = "ai"
IsAssistantRecord(r) == r.role = "ai"

\* C1: a turn whose generation call raised leaves no assistant entry of that
\* turn in History or in the store; once it has ended, History holds as many
\* assistant messages and the store as many assistant records as before it.
C1_NoAssistantEntryAfterFailedGeneration ==
    \A k \in Turns :
        log[k].gen = "raised" =>
            /\ \A i \in 1..Len(history) :
                 ~(history[i].turn = k /\ IsAI(history[i]))
            /\ \A i \in 1..Len(store) :
                 ~(store[i].turn = k /\ IsAssistantRecord(store[i]))
            /\ AfterTurn(k) =>
                 /\ CountWhere(history, IsAI) = CountWhere(log[k].hist0, IsAI)
                 /\ CountWhere(store, IsAssistantRecord)
                      = CountWhere(log[k].store0, IsAssistantRecord)

\* a failed turn has ended in a session that already holds a committed turn
C1_Witness ==
    \E k \in Turns :
        /\ log[k].gen = "raised"
        /\ AfterTurn(k)
        /\ CountWhere(log[k].hist0, IsAI) > 0
        /\ CountWhere(log[k].store0, IsAssistantRecord) > 0

C3_QueryPrecedesEveryWrite ==
    \A t \in Threads :
        /\ pc[t] \in {"add_user", "query", "invoke"} =>
             \A i \in 1..Len(store) : store[i].turn # turn[t]
        /\ (pc[t] = "invoke" /\ log[turn[t]].store0 = << >>) =>
             context[t] = << >>

\* C4 as stated: when no turn is in progress and no store call has failed,
\* the store holds for each turn both its user and its assistant record or
\* neither, and no record of a turn whose generation failed.
C4_TurnCommittedAtomically ==
    ((\A t \in Threads : pc[t] = "idle")
       /\ (\A k \in Turns : ~log[k].storeFailed)) =>
        \A k \in Turns :
            /\ (\E i \in 1..Len(store) :
                  store[i].turn = k /\ store[i].role = "user")
               <=> (\E i \in 1..Len(store) :
                      store[i].turn = k /\ IsAssistantRecord(store[i]))
            /\ log[k].gen = "raised" =>
                 \A i \in 1..Len(store) : store[i].turn # k

\* C5: after a turn whose generation call succeeded, History is the History
\* before the turn extended by the raw user message and then the response.
C5_HistoryGainsUserThenResponse ==
    \A k \in Turns :
        (log[k].gen = "ok" /\ AfterTurn(k)) =>
            history = log[k].hist0
                        \o << HumanMessage(log[k].text, k),
                              AIMessage(log[k].response, k) >>

\* a successful turn has ended after an earlier committed turn
C5_Witness ==
    \E k \in Turns :
        /\ log[k].gen = "ok"
        /\ AfterTurn(k)
        /\ Len(log[k].hist0) = 2
        /\ Len(history) = 4

\* C6: after a turn whose generation call succeeded and whose store calls did
\* not fail, the store is the store before the turn extended by the user's
\* record and then the assistant's record, and nothing else has changed.
C6_StoreGainsUserAndAssistantRecord ==
    \A k \in Turns :
        (log[k].gen = "ok" /\ ~log[k].storeFailed /\ AfterTurn(k)) =>
            LET n == Len(log[k].store0)
            IN  /\ Len(store) = n + 2
                /\ SubSeq(store, 1, n) = log[k].store0
                /\ store[n + 1].text = log[k].text
                /\ store[n + 1].role = "user"
                /\ store[n + 2].text = log[k].response
                /\ IsAssistantRecord(store[n + 2])
                /\ store[n + 1].id # store[n + 2].id
                /\ \A i \in 1..n : store[i].id \notin {store[n + 1].id,
                                                        store[n + 2].id}

\* a successful turn without store failures has ended on a store that
\* already held records
C6_Witness ==
    \E k \in Turns :
        /\ log[k].gen = "ok"
        /\ ~log[k].storeFailed
        /\ AfterTurn(k)
        /\ Len(log[k].store0) >= 2
        /\ Len(store) = Len(log[k].store0) + 2

\* C7 as stated: the generation call receives the system instructions, the
\* whole History accumulated up to the turn, in order, and the user content.
C7_GenerationCallReceivesHistory ==
    \A t \in Threads :
        pc[t] \in {"add_ai", "except"} =>
            LET h == log[turn[t]].histAtCall
            IN  /\ Len(sent[t]) = Len(h) + 2
                /\ sent[t][1].role = "system"
                /\ \A i \in 1..Len(h) : sent[t][i + 1].content = h[i].content
                /\ sent[t][Len(sent[t])].role = "user"

\* C8 as stated: when two callers' turns overlap, History and the store end
\* up in the issue order of the user messages, a turn's entries together.
C8_CommitsInIssueOrder ==
    (\A t \in Threads : pc[t] = "idle") =>
        /\ \A i, j \in 1..Len(history) :
             i < j => history[i].turn <= history[j].turn
        /\ \A i, j \in 1..Len(store) :
             i < j => store[i].turn <= store[j].turn

\* C9: a query returns at most top_k documents, each at a distance to the
\* query below the threshold.
C9_QueryBoundedByTopKAndThreshold ==
    ret.op = "query" =>
        /\ Len(ret.docs) <= ret.top_k
        /\ \A i \in 1..Len(ret.docs) :
             CosineDistance(Embed(ret.docs[i]), Embed(ret.prompt)) < Threshold

\* a query that asked for two of two records and got one: the other is not
\* below the threshold
C9_Witness ==
    /\ ret.op = "query"
    /\ ~ret.failed
    /\ ret.role = None
    /\ ret.top_k = 2
    /\ Len(store) = 2
    /\ Len(ret.docs) = 1

\* C10: a query on an empty store returns the empty list and raises nothing.
C10_QueryOnEmptyStoreReturnsEmpty ==
    (ret.op = "query" /\ store = << >>) =>
        (ret.docs = << >> /\ ~ret.raised)

\* a query for three documents, with a role filter, on the empty store
C10_Witness ==
    /\ ret.op = "query"
    /\ store = << >>
    /\ ~ret.failed
    /\ ret.top_k = 3
    /\ ret.role = "user"
    /\ ret.docs = << >>

\* C11: a query with a role filter returns only texts of records stored with
\* that role, and it returns every record of that role that is below the
\* threshold and among the top_k nearest of that role.
C11_RoleFilterSelectsRole ==
    (ret.op = "query" /\ ret.role # None /\ ~ret.failed) =>
        LET D(i) == CosineDistance(store[i].embedding, Embed(ret.prompt))
            OfRole == {i \in 1..Len(store) : store[i].role = ret.role}
            Docs == {ret.docs[j] : j \in 1..Len(ret.docs)}
        IN  /\ \A j \in 1..Len(ret.docs) :
                 /\ \E i \in OfRole : store[i].text = ret.docs[j]
                 /\ Cardinality({i \in OfRole : store[i].text = ret.docs[j]})
                      >= Cardinality({m \in 1..Len(ret.docs) :
                                         ret.docs[m] = ret.docs[j]})
            /\ \A i \in OfRole :
                 (/\ D(i) < Threshold
                  /\ Cardinality({m \in OfRole \ {i} : D(m) <= D(i)})
                       < ret.top_k)
                 => store[i].text \in Docs

\* a query filtered to the user role on a store that also holds an
\* assistant record below the threshold: only the user's text comes back
C11_Witness ==
    /\ ret.op = "query"
    /\ ~ret.failed
    /\ ret.role = "user"
    /\ ret.top_k = 2
    /\ Len(store) = 2
    /\ store[1].role = "user"
    /\ store[2].role = "ai"
    /\ store[1].text # store[2].text
    /\ CosineDistance(store[2].embedding, Embed(ret.prompt)) < Threshold
    /\ ret.docs = <<store[1].text>>

\* C12: after add(text, role) on an empty store, query(text, top_k=1,
\* role_filter=role) returns the list holding text.
C12_SelfRetrieval ==
    (/\ ret.op = "query"
     /\ ~ret.failed
     /\ Len(store) = 1
     /\ ret.prompt = store[1].text
     /\ ret.role = store[1].role
     /\ ret.top_k = 1)
    => ret.docs = <<store[1].text>>

\* the one record of the store, an assistant's, has been queried for
C12_Witness ==
    /\ ret.op = "query"
    /\ ~ret.failed
    /\ Len(store) = 1
    /\ store[1].role = "ai"
    /\ ret.prompt = store[1].text
    /\ ret.role = "ai"
    /\ ret.top_k = 1
    /\ ret.docs = <<store[1].text>>

\* C13: after clear() count_messages is 0 with no role filter and with every
\* role filter, and a second clear() leaves the same empty store.
C13_ClearThenCountIsZero ==
    /\ (ret.op = "clear" /\ ret.outcome = "ok") =>
         /\ \A role \in RoleArgs :
              CountMessages(store, role, collection_live, FALSE) = 0
         /\ Clear(store, collection_live, "ok")
              = [store |-> store, live |-> collection_live]
    /\ (ret.op = "count" /\ store = << >>) => ret.n = 0

\* a clear has emptied a store into which two records had been added
C13_Witness ==
    /\ ret.op = "clear"
    /\ ret.outcome = "ok"
    /\ nextId = 3
    /\ store = << >>
    /\ collection_live

\* C14 as stated: a query after clear() and before any add returns the empty
\* list, and no add or query of another caller runs while the collection
\* is deleted and not yet recreated.
C14_ClearIsAtomic ==
    /\ (ret.op = "query" /\ store = << >>) => ret.docs = << >>
    /\ ret.op \in {"add", "query"} => ~ret.in_clear

\* C15: clear_history() between turns leaves History empty and the store
\* with count 0 under every role filter.
C15_ClearHistoryEmptiesBoth ==
    (ret.op = "clear_history" /\ ret.outcome = "ok" /\ ret.at = issued) =>
        /\ Len(history) = 0
        /\ \A role \in RoleArgs :
             CountMessages(store, role, collection_live, FALSE) = 0

\* clear_history() has been called after two committed turns
C15_Witness ==
    /\ ret.op = "clear_history"
    /\ ret.outcome = "ok"
    /\ ret.at = issued
    /\ issued = 2
    /\ \A k \in 1..2 : log[k].gen = "ok" /\ ~log[k].storeFailed /\ log[k].done
    /\ Len(log[2].store0) = 2
    /\ Len(log[2].hist0) = 2
    /\ history = << >>
    /\ store = << >>

\* C16 as stated: when memory.clear() fails inside clear_history(), what the
\* caller observes differs from what it observes after a successful clear.
C16_ClearFailureIsSurfaced ==
    (ret.op = "clear_history" /\ ret.outcome # "ok") =>
        ret.returned # ClearHistoryReturn("ok")

\* C17: with turns run one after the other, every earlier turn has ended
\* when a turn queries; the records an earlier turn committed are in the
\* store then, and each of them that is below the threshold and among the
\* three nearest to the query is in the retrieved context.
C17_NextTurnSeesCommittedRecords ==
    \A t \in Threads :
        LET k == turn[t]
            D(i) == CosineDistance(store[i].embedding, Embed(user_input[t]))
        IN  /\ pc[t] \in {"query", "invoke"} =>
                 \A j \in 1..(k - 1) :
                     /\ log[j].done
                     /\ (/\ log[j].gen = "ok"
                         /\ \A a \in 1..Len(log[j].adds) :
                              ~log[j].adds[a].failed)
                        => /\ \E i \in 1..Len(store) :
                                /\ store[i].turn = j
                                /\ store[i].role = "user"
                                /\ store[i].text = log[j].text
                           /\ \E i \in 1..Len(store) :
                                /\ store[i].turn = j
                                /\ IsAssistantRecord(store[i])
                                /\ store[i].text = log[j].response
            /\ (pc[t] = "invoke" /\ ~log[k].queryFailed) =>
                 \A i \in 1..Len(store) :
                     (/\ store[i].turn < k
                      /\ D(i) < Threshold
                      /\ Cardinality({m \in 1..Len(store) \ {i} :
                                         D(m) <= D(i)}) < ContextTopK)
                     => \E c \in 1..Len(context[t]) :
                            context[t][c] = store[i].text

\* turn 2 has queried a store that turn 1 filled from empty, and both of
\* turn 1's texts are in its context
C17_Witness ==
    /\ pc["main"] = "invoke"
    /\ turn["main"] = 2
    /\ log[1].store0 = << >>
    /\ log[1].gen = "ok"
    /\ ~log[1].storeFailed
    /\ ~log[2].storeFailed
    /\ log[1].text # log[2].text
    /\ \E c \in 1..Len(context["main"]) : context["main"][c] = log[1].text
    /\ \E c \in 1..Len(context["main"]) :
         context["main"][c] = log[1].response

\* C18: a turn whose memory query failed goes on: its context is empty, the
\* generation call is made with no context, and when that call succeeds the
\* turn ends with the backend's response as its output.
C18_QueryFailureDegradesToEmptyContext ==
    \A k \in Turns :
        log[k].queryFailed =>
            LET t == log[k].thread
            IN  /\ (turn[t] = k /\ pc[t] = "invoke") => context[t] = << >>
                /\ (turn[t] = k /\ pc[t] \in {"add_ai", "except"}) =>
                     sent[t] = Messages(<< >>, log[k].input)
                /\ log[k].done => log[k].gen \in {"ok", "raised"}
                /\ (AfterTurn(k) /\ log[k].gen = "ok") =>
                     out[t] = <<log[k].response>>

\* a turn whose query failed on a store that held records has ended with
\* the backend's response
C18_Witness ==
    \E k \in Turns :
        /\ log[k].queryFailed
        /\ AfterTurn(k)
        /\ log[k].gen = "ok"
        /\ Len(log[k].store0) = 2
        /\ out[log[k].thread] = <<log[k].response>>

\* C19: when an add fails in a turn whose generation call succeeded, the
\* turn's output is the full response text and each add of the turn, the
\* failed one included, was attempted once.
C19_AddFailureKeepsResponse ==
    \A k \in Turns :
        (/\ AfterTurn(k)
         /\ log[k].gen = "ok"
         /\ \E a \in 1..Len(log[k].adds) : log[k].adds[a].failed)
        => /\ Join(out[log[k].thread]) = log[k].response
           /\ Len(log[k].adds) = 2
           /\ log[k].adds[1].role = "user"
           /\ log[k].adds[2].role = "ai"

\* a turn whose assistant add failed has ended with the response
C19_Witness ==
    \E k \in Turns :
        /\ AfterTurn(k)
        /\ log[k].gen = "ok"
        /\ Len(log[k].adds) = 2
        /\ ~log[k].adds[1].failed
        /\ log[k].adds[2].failed
        /\ out[log[k].thread] = <<log[k].response>>

\* C20 as stated: when add_message fails, what its caller observes differs
\* from what it observes on success, and it is a result, not an exception.
C20_AddFailureIsReported ==
    (ret.op = "add" /\ ret.failed) =>
        /\ ret.outcome # AddReturn(FALSE)
        /\ ~ret.outcome.raised

\* C21: a turn whose generation call raised yields one fragment, the error
\* message, and ends with the caller idle again; a turn issued after it
\* whose generation call succeeds ends with the response as its output and
\* as the last entry of History.
C21_GenerationFailureEndsTurnOnly ==
    \A k \in Turns :
        log[k].gen = "raised" =>
            LET t == log[k].thread
            IN  /\ (turn[t] = k /\ (pc[t] = "collect" \/ log[k].done)) =>
                     \E e \in Errors : out[t] = <<ErrorMsg(e)>>
                /\ (turn[t] = k /\ log[k].done) => pc[t] = "idle"
                /\ \A j \in Turns :
                     (j > k /\ AfterTurn(j) /\ log[j].gen = "ok") =>
                         /\ out[log[j].thread] = <<log[j].response>>
                         /\ history # << >>
                         /\ history[Len(history)]
                              = AIMessage(log[j].response, j)

\* the first turn's generation call raised and the second turn has ended
\* with a response
C21_Witness ==
    /\ Len(log) = 2
    /\ log[1].gen = "raised"
    /\ log[1].done
    /\ AfterTurn(2)
    /\ log[2].gen = "ok"
    /\ out[log[2].thread] = <<log[2].response>>
    /\ Len(history) = 2

\* C22: when the caller has abandoned a turn's stream, no fragment is
\* forwarded after the one it read, and the assistant entries of History and
\* the assistant records of the store that belong to the turn hold the whole
\* response text.
C22_AbandonedTurnLeavesNoPartialResponse ==
    \A k \in Turns :
        log[k].abandoned =>
            LET t == log[k].thread
            IN  /\ turn[t] = k => (Len(out[t]) = 1 /\ pc[t] = "idle")
                /\ \A i \in 1..Len(history) :
                     (IsAI(history[i]) /\ history[i].turn = k) =>
                         /\ log[k].gen = "ok"
                         /\ history[i].content = log[k].response
                /\ \A i \in 1..Len(store) :
                     (IsAssistantRecord(store[i]) /\ store[i].turn = k) =>
                         /\ log[k].gen = "ok"
                         /\ store[i].text = log[k].response

\* a stream abandoned after its fragment, with the turn's response in
\* History and in the store
C22_Witness ==
    \E k \in Turns :
        /\ log[k].abandoned
        /\ log[k].gen = "ok"
        /\ turn[log[k].thread] = k
        /\ out[log[k].thread] = <<log[k].response>>
        /\ \E i \in 1..Len(history) : history[i] = AIMessage(log[k].response, k)
        /\ \E i \in 1..Len(store) :
             /\ IsAssistantRecord(store[i])
             /\ store[i].turn = k
             /\ store[i].text = log[k].response

\* C23: every step that changes History either appends to it, leaving the
\* entries it had in place and in order, or resets it to the empty sequence.
C23_HistoryAppendOnlyOrCleared ==
    [][\/ history' = history
       \/ /\ Len(history') > Len(history)
          /\ SubSeq(history', 1, Len(history)) = history
       \/ history' = << >>]_vars

\* History was filled by the first turn, reset by clear_history and filled
\* again by the second turn
C23_Witness ==
    /\ ret.op = "clear_history"
    /\ ret.at = 1
    /\ log[1].gen = "ok"
    /\ Len(history) = 2
    /\ history[1] = HumanMessage(log[2].input, 2)
    /\ history[2] = AIMessage(log[2].response, 2)

\* C24: every step of the engine either leaves each record of the store in
\* place with its id, text and role, adding at most new records with fresh
\* ids after them, or is a clear that removes every record.
C24_RecordsImmutableUntilClear ==
    [][\/ /\ Len(store') >= Len(store)
          /\ SubSeq(store', 1, Len(store)) = store
          /\ \A i \in (Len(store) + 1)..Len(store') :
               \A j \in 1..Len(store) : store'[i].id # store[j].id
       \/ /\ store' = << >>
          /\ ret'.op = "clear"]_vars

\* a record added after a clear has been read back, and the record added
\* before the clear is gone
C24_Witness ==
    /\ Len(store) = 1
    /\ store[1].id = 2
    /\ ret.op = "recent"
    /\ ret.docs = <<store[1].text>>

\* C25 as stated: every record of the store has one of the two roles, and
\* the counts by role add up to the count of the whole store.
C25_RolesAreUserOrAssistant ==
    /\ \A i \in 1..Len(store) : store[i].role \in Roles
    /\ CountMessages(store, "user", TRUE, FALSE)
         + CountMessages(store, "ai", TRUE, FALSE)
       = CountMessages(store, None, TRUE, FALSE)

\* the records a query may return: those matching the role filter whose
\* distance to the prompt is under the threshold
Eligible(coll, prompt, role) ==
    {i \in Matching(coll, role) :
        CosineDistance(coll[i].embedding, Embed(prompt)) < Threshold}

\* the documents are the texts of every eligible record
ReturnsEveryEligible(docs, coll, prompt, role) ==
    /\ Len(docs) = Cardinality(Eligible(coll, prompt, role))
    /\ \A i \in Eligible(coll, prompt, role) :
         \E j \in 1..Len(docs) : docs[j] = coll[i].text

\* C26 as stated: the number of results a query requests from the store is
\* at most the number of records matching its role filter, and a query whose
\* top_k is larger than that number returns every eligible record.
C26_TopKClampedToMatchingRecords ==
    (ret.op = "query" /\ ~ret.failed) =>
        /\ NResults(store, ret.top_k)
             <= Cardinality(Matching(store, ret.role))
        /\ ret.top_k > Cardinality(Matching(store, ret.role)) =>
             ReturnsEveryEligible(ret.docs, store, ret.prompt, ret.role)

\* C26, amended: the number of results a query requests from the store is
\* at most top_k and at most the number of records in the whole store,
\* whatever the role filter; a query whose top_k is larger than the number
\* of records matching the filter returns every eligible record and does
\* not fail.
C26_TopKClampedToStoreCount ==
    (ret.op = "query" /\ ~ret.failed) =>
        /\ NResults(store, ret.top_k) <= CollectionCount(store)
        /\ NResults(store, ret.top_k) <= ret.top_k
        /\ ret.top_k > Cardinality(Matching(store, ret.role)) =>
             /\ ~ret.raised
             /\ ReturnsEveryEligible(ret.docs, store, ret.prompt, ret.role)

\* a query filtered by the assistant role asks the store for more results
\* than it has assistant records, and is answered with the one there is
C26_Witness ==
    /\ ret.op = "query"
    /\ ~ret.failed
    /\ ret.role = "ai"
    /\ ret.top_k = MaxTopK
    /\ Len(store) = 2
    /\ Cardinality(Matching(store, "ai")) = 1
    /\ NResults(store, ret.top_k) = 2
    /\ Len(ret.docs) = 1

\* C27: the documents a query returns are in ascending order of distance to
\* the prompt: of two returned documents the earlier one is not farther from
\* the prompt than the later one.
C27_QueryResultsAscendByDistance ==
    ret.op = "query" =>
        \A i \in 1..Len(ret.docs) : \A j \in i..Len(ret.docs) :
            CosineDistance(Embed(ret.docs[i]), Embed(ret.prompt))
              <= CosineDistance(Embed(ret.docs[j]), Embed(ret.prompt))

\* two documents returned nearest first, against the order they were added
C27_Witness ==
    /\ ret.op = "query"
    /\ Len(ret.docs) = 2
    /\ Len(store) = 2
    /\ ret.docs[1] = store[2].text
    /\ ret.docs[2] = store[1].text
    /\ CosineDistance(Embed(ret.docs[1]), Embed(ret.prompt))
         < CosineDistance(Embed(ret.docs[2]), Embed(ret.prompt))

\* C28: when a turn whose generation call succeeded has ended, its caller
\* has received at least one fragment, the fragments joined in order are the
\* backend's response text, and that text is the content of the assistant
\* entry at the end of History and, unless the add failed, the text of the
\* assistant record at the end of the store.
C28_FragmentsConcatenateToCommittedResponse ==
    \A k \in Turns :
        (AfterTurn(k) /\ log[k].gen = "ok") =>
            LET t == log[k].thread
            IN  /\ Len(out[t]) >= 1
                /\ Join(out[t]) = log[k].response
                /\ history # << >>
                /\ history[Len(history)] = AIMessage(Join(out[t]), k)
                /\ ~log[k].adds[2].failed =>
                     /\ store # << >>
                     /\ IsAssistantRecord(store[Len(store)])
                     /\ store[Len(store)].text = Join(out[t])
                     /\ store[Len(store)].turn = k

\* two successful turns have ended; the second one's fragments make up the
\* text at the end of History and of the store
C28_Witness ==
    /\ Len(log) = 2
    /\ AfterTurn(2)
    /\ log[1].gen = "ok"
    /\ log[2].gen = "ok"
    /\ ~log[2].storeFailed
    /\ log[1].response # log[2].response
    /\ Len(history) = 4
    /\ history[4].content = Join(out[log[2].thread])
    /\ store[Len(store)].text = Join(out[log[2].thread])

\* C29 as stated: get_response returns a string, the fragments the generator
\* yielded joined in order.
C29_GetResponseReturnsJoinedFragments ==
    ret.op = "get_response" =>
        ret.returned = StrValue(Join(ret.response_chunks))

\* C30 as stated: after the //clear command the GUI's chat_messages is
\* empty, conversation_history holds the one system message that reports the
\* clear, History and the store are empty, and the command has returned
\* normally.
C30_ClearCommandClearsConversation ==
    ret.op = "//clear" =>
        /\ ~ret.raised
        /\ chat_messages = << >>
        /\ conversation_history
             = AppAddMessage(<< >>, "System", "Chat history cleared", FALSE)
        /\ history = << >>
        /\ store = << >>

\* C31 as stated: chat_messages never has more than 20 entries.
C31_ChatMessagesAtMostWindow ==
    Len(chat_messages) <= ChatWindow

\* C31, amended: with turns run one after the other, chat_messages has at
\* most 20 entries when it is handed to the AI client and at most 21 in any
\* state: the assistant's message is appended after the cut, so the list
\* holds 21 entries from the end of one turn to the start of the next.
C31_ChatMessagesCutBeforeCall ==
    /\ Len(chat_messages) <= ChatWindow + 1
    /\ \A t \in Threads :
         pc[t] = "get_chat_response" =>
             /\ Len(chat_messages) <= ChatWindow
             /\ chat_messages[Len(chat_messages)]
                  = [role |-> "user", content |-> text_in[t]]

\* the list was cut to 20 entries for the call of a turn, whose assistant
\* message then made it 21
C31_Witness ==
    /\ pc["main"] = "idle"
    /\ issued = MaxWindowTurns
    /\ Len(chat_messages) = ChatWindow + 1
    /\ chat_messages[1].role = "assistant"
    /\ chat_messages[Len(chat_messages)].role = "assistant"

\* the list has no message with role user, or the last such message has
\* empty content
NoUserContent(messages) ==
    \A i \in 1..Len(messages) :
        (/\ messages[i].role = "user"
         /\ \A j \in (i + 1)..Len(messages) : messages[j].role # "user")
        => messages[i].content = ""

\* C32: the user input get_chat_response works with is the content of the
\* last message with role user of the list it is given; when there is no
\* such message or its content is empty, the call yields the one fragment
\* "No user input found in messages.", makes no add, query or generation
\* call, and leaves History and the store as they were.
C32_UserInputIsLastUserMessage ==
    \A k \in Turns :
        log[k].caller = "api" =>
            LET msgs == log[k].messages
                t == log[k].thread
            IN  /\ \A i \in 1..Len(msgs) :
                     (/\ msgs[i].role = "user"
                      /\ \A j \in (i + 1)..Len(msgs) : msgs[j].role # "user")
                     => log[k].input = msgs[i].content
                /\ NoUserContent(msgs) =>
                     /\ log[k].input = ""
                     /\ log[k].gen = "pending"
                     /\ log[k].adds = << >>
                     /\ ~log[k].storeFailed
                     /\ turn[t] = k =>
                          /\ out[t] = <<NoUserInput>>
                          /\ history = log[k].hist0
                          /\ store = log[k].store0

\* after a turn that filled History and the store, a call with a list whose
\* last user message is empty has ended with the one fragment
C32_Witness ==
    /\ Len(log) = 2
    /\ log[2].done
    /\ log[2].messages = <<[role |-> "user", content |-> "hi"],
                           [role |-> "user", content |-> ""]>>
    /\ ret.op = "get_chat_response"
    /\ ret.turn = 2
    /\ ret.fragments = <<NoUserInput>>
    /\ Len(history) = 2
    /\ Len(store) = 2

\* C33 as stated: get_recent_messages(count, role) returns the last count
\* documents of the role-filtered store, in store order: the result has at
\* most count elements, and it is the whole list only when the store holds
\* at most count such documents.
C33_RecentReturnsLastCount ==
    (ret.op = "recent" /\ ~ret.failed) =>
        LET docs == CollectionGet(store, ret.role)
            n == Min(ret.count, Len(docs))
        IN  /\ Len(ret.docs) <= ret.count
            /\ ret.docs = SubSeq(docs, Len(docs) - n + 1, Len(docs))
            /\ ret.docs = docs => Len(docs) <= ret.count

\* C34 as stated: chat_messages has one assistant entry for each ended turn
\* whose generation call succeeded and none for any other turn; an assistant
\* entry holds a response of the backend, never the error fragment, and the
\* error fragment is not displayed as a message of the AI.
C34_AssistantEntryOnlyOnSuccess ==
    /\ Cardinality({i \in 1..Len(chat_messages) :
                       chat_messages[i].role = "assistant"})
         = Cardinality({k \in Turns : log[k].done /\ log[k].gen = "ok"})
    /\ \A i \in 1..Len(chat_messages) :
         chat_messages[i].role = "assistant" =>
             /\ chat_messages[i].content \in Responses
             /\ \A e \in Errors : chat_messages[i].content # ErrorMsg(e)
    /\ \A i \in 1..Len(conversation_history) :
         conversation_history[i].sender = "AI" =>
             \A e \in Errors : conversation_history[i].message # ErrorMsg(e)

\* the voice_loop threads that have not ended
AliveThreads == {i \in 1..Len(voice_threads) : voice_threads[i] # "dead"}

\* C35 as stated: at most one voice_loop thread is alive at a time, and
\* whenever voice input is enabled and stays so, eventually a thread is
\* alive with is_listening set and stop_listening clear.
C35_VoiceEnabledKeepsOneListener ==
    /\ [](Cardinality(AliveThreads) <= 1)
    /\ [](voice_input_enabled =>
            <>(\/ ~voice_input_enabled
               \/ /\ AliveThreads # {}
                  /\ is_listening
                  /\ ~stop_listening))

\* the number of turns issued when clear_history() was last called
LastClear == IF ret.op = "clear_history" THEN ret.at ELSE 0

\* the turns issued after the last clear_history() whose generation call
\* returned and that have ended
SuccessfulSinceClear ==
    {k \in 1..Len(log) : k > LastClear /\ log[k].done /\ log[k].gen = "ok"}

\* C36: between turns History has two entries for each successful turn
\* since the last clear_history(), and its entries alternate user message,
\* assistant message, starting with a user message.
C36_HistoryAlternatesBetweenTurns ==
    (\A t \in Threads : pc[t] = "idle") =>
        /\ Len(history) = 2 * Cardinality(SuccessfulSinceClear)
        /\ \A i \in 1..Len(history) :
             history[i].type = IF i % 2 = 1 THEN "human" ELSE "ai"

\* the operations of the engine that only read
ReadOps == {"query", "count", "recent", "search", "stats"}

\* a step that is a direct call of an operation of the engine, between turns
EngineCall == pc["main"] = "idle" /\ pc' = pc

\* a step of a turn in which stream_response calls add_message or query
EngineCallInTurn == pc["main"] \in {"add_user", "query", "add_ai"}

\* C37: a call of query, count_messages, get_recent_messages,
\* search_by_keyword or get_memory_stats, failing or not, leaves the records
\* of the store and every count as they were, and no operation of the engine
\* changes History.
C37_ReadsLeaveStoreUnchanged ==
    [][/\ (EngineCall /\ ret'.op \in ReadOps) =>
             /\ store' = store
             /\ collection_live' = collection_live
             /\ \A role \in RoleArgs :
                  CountMessages(store', role, collection_live', FALSE)
                    = CountMessages(store, role, collection_live, FALSE)
       /\ (EngineCall \/ EngineCallInTurn) => history' = history]_vars

\* after a turn that left two records and two entries of History, a read of
\* the engine has failed
C37_Witness ==
    /\ issued = 1
    /\ pc["main"] = "idle"
    /\ Len(history) = 2
    /\ Len(store) = 2
    /\ ret.op = "recent"
    /\ ret.failed
    /\ ret.docs = << >>

====
